---- MODULE Spec2Model ----
(***************************************************************************)
(* Subscription bot of dmdipanshu/test0.  The repository holds two         *)
(* variants of the same bot: src/code.py (SQLite store) and src/main.py    *)
(* (MongoDB store).  Both are modelled; the variable "variant" says which  *)
(* program is running and never changes.                                   *)
(*                                                                         *)
(* Time is counted in whole days.  A nullable column (TEXT timestamp in    *)
(* code.py, datetime field in main.py) is the empty sequence when NULL and *)
(* the one-element sequence <<t>> when it holds the instant t.             *)
(***************************************************************************)
EXTENDS Integers, Sequences, FiniteSets, TLC

VARIABLES
    variant,            \* "code" (src/code.py) or "main" (src/main.py)
    now,                \* wall clock, datetime.now(timezone.utc), in days
    users,              \* users table / users_col: sequence of rows, insertion order
    payments,           \* payments table / payments_col: payment id = index
    last_selected_plan, \* in-memory dict user id -> plan key
    sweep_pc,           \* expiry_worker: "sleep" or "run"
    sweep_now,          \* expiry_worker: the pass's local now
    sweep_rows,         \* expiry_worker: rows of the pass's snapshot still to handle
    grants,             \* number of grants persisted so far
    upserting,          \* main.py upserts that matched no document and have not inserted yet
    counting,           \* main.py get_stats: the counts awaited so far by the running query
    support,            \* main.py: support tickets, users_in_support, running on_user_text handlers
    broadcast,          \* the FSM states of the chats and the running broadcast loop
    log                 \* effects of the most recent handler run, in order

vars == <<variant, now, users, payments, last_selected_plan,
          sweep_pc, sweep_now, sweep_rows, grants, upserting, counting, support,
          broadcast, log>>

----------------------------------------------------------------------------
(* Bounds of the model *)

MaxUsers == 2
MaxPayments == 2
MaxNow == 54
MaxGrants == 2
MaxUpserting == 2
MaxTickets == 2
MaxTexts == 2
MaxMessages == 3

(* Program constants *)

ADMIN_ID == 1
ReminderDays == 3

Variants == {"code", "main"}
Ids == 1..MaxUsers
Customers == Ids \ {ADMIN_ID}
Profiles == {"a", "b"}
TickDays == {27, 30}
PlanInputs == {"plan1", "plan2", "bogus"}
FileIds == {"f1"}
ApproveClicks == {"plan1", "plan2"}

PLANS == [plan1 |-> 30, plan2 |-> 180, plan3 |-> 365, plan4 |-> 36500]

NULL == << >>

isoformat(t) == <<t>>
fromisoformat(s) == s[1]

is_admin_anyone(uid) == TRUE

is_admin(uid) == uid = ADMIN_ID

(* An entry of the log: the first entry of a handler's log names the handler
   and its caller (followed, for a moderation callback that passed the
   is_admin check and parsed its data, by the payment id it carries), the
   rest are its store writes, outbound messages and answers, in the order the
   code makes them. *)
Ev(kind, id) == <<kind, id>>

Did(l, kind, id) == Len(l) >= 1 /\ l[1] = Ev(kind, id)
Has(l, kind, id) == \E i \in 1..Len(l) : l[i] = Ev(kind, id)

----------------------------------------------------------------------------
(* Store *)

RECURSIVE IndexOf(_, _, _)
IndexOf(rows, uid, i) ==
    IF i > Len(rows) THEN 0
    ELSE IF rows[i].user_id = uid THEN i
    ELSE IndexOf(rows, uid, i + 1)

get_user(uid) ==
    LET i == IndexOf(users, uid, 1) IN IF i = 0 THEN << >> ELSE <<users[i]>>

NewUser(uid, profile) ==
    [user_id |-> uid, profile |-> profile, plan_key |-> "null",
     start_at |-> NULL, end_at |-> NULL, status |-> "none", reminded_3d |-> FALSE]

upsert_user_replace(rows, uid, profile) ==
    LET i == IndexOf(rows, uid, 1) IN
    IF i = 0 THEN Append(rows, NewUser(uid, profile))
    ELSE [rows EXCEPT ![i] = NewUser(uid, profile)]

upsert_user(rows, uid, profile) ==
    LET i == IndexOf(rows, uid, 1) IN
    IF i = 0 THEN Append(rows, NewUser(uid, profile))
    ELSE [rows EXCEPT ![i].profile = profile]

(* UPDATE users SET ... WHERE user_id=? writes every matching row *)
sql_update_rows(rows, uid) == {i \in 1..Len(rows) : rows[i].user_id = uid}

(* users_col.update_one({"user_id": uid}, {"$set": ...}) writes the first
   matching document, and none when there is no match *)
update_one_rows(rows, uid) ==
    LET i == IndexOf(rows, uid, 1) IN IF i = 0 THEN {} ELSE {i}

updated_rows(rows, uid) ==
    IF variant = "code" THEN sql_update_rows(rows, uid) ELSE update_one_rows(rows, uid)

set_status_drops_row(rows, uid, status) ==
    SelectSeq(rows, LAMBDA r : r.user_id # uid)

set_status(rows, uid, status) ==
    [i \in 1..Len(rows) |->
        IF i \in updated_rows(rows, uid) THEN [rows[i] EXCEPT !.status = status]
        ELSE rows[i]]

mark_reminded(rows, uid) ==
    [i \in 1..Len(rows) |->
        IF i \in updated_rows(rows, uid) THEN [rows[i] EXCEPT !.reminded_3d = TRUE]
        ELSE rows[i]]

grant_base_code_always_extends(row, t) == fromisoformat(row.end_at)

(* code.py: the base of a grant is the stored end when the row is active and
   that end is still ahead, else now *)
grant_base_code(row, t) ==
    LET current_end == fromisoformat(row.end_at) IN
    IF row.status = "active" /\ current_end > t THEN current_end ELSE t

grant_end_code(uid, days, t) ==
    LET row == get_user(uid) IN
    IF row # << >> /\ row[1].end_at # NULL
    THEN grant_base_code(row[1], t) + days
    ELSE t + days

(* main.py: end_date = now + timedelta(days=days), whatever is stored *)
grant_end_main(uid, days, t) == t + days

grant_end_no_days(uid, days, t) == t

grant_end(uid, days, t) ==
    IF variant = "code" THEN grant_end_code(uid, days, t) ELSE grant_end_main(uid, days, t)

GrantFields_keeps_reminder(r, plan_key, start, end) ==
    [r EXCEPT !.plan_key = plan_key, !.start_at = isoformat(start),
              !.end_at = isoformat(end), !.status = "active"]

GrantFields_without_start(r, plan_key, start, end) ==
    [r EXCEPT !.plan_key = plan_key, !.end_at = isoformat(end),
              !.status = "active", !.reminded_3d = FALSE]

GrantFields(r, plan_key, start, end) ==
    [r EXCEPT !.plan_key = plan_key, !.start_at = isoformat(start),
              !.end_at = isoformat(end), !.status = "active", !.reminded_3d = FALSE]

set_subscription_without_status(rows, uid, plan_key, days, t) ==
    LET end == grant_end(uid, days, t) IN
    [i \in 1..Len(rows) |->
        IF i \in updated_rows(rows, uid)
        THEN [rows[i] EXCEPT !.plan_key = plan_key, !.start_at = isoformat(t),
                             !.end_at = isoformat(end), !.reminded_3d = FALSE]
        ELSE rows[i]]

set_subscription(rows, uid, plan_key, days, t) ==
    LET end == grant_end(uid, days, t) IN
    [i \in 1..Len(rows) |->
        IF i \in updated_rows(rows, uid) THEN GrantFields(rows[i], plan_key, t, end)
        ELSE rows[i]]

(* the inserted row; created_at is datetime.now() read by the helper *)
NewPayment(uid, plan_key, file_id) ==
    [user_id |-> uid, plan_key |-> plan_key, file_id |-> file_id,
     created_at |-> isoformat(now), status |-> "pending"]

new_payment_id_reused(pays) == 1

(* the id of the inserted payment: AUTOINCREMENT rowid read back with
   last_insert_rowid() in code.py, the ObjectId of insert_one in main.py; no
   payment is ever deleted, so one more than the number of payments *)
new_payment_id(pays) == Len(pays) + 1

add_payment(pays, uid, plan_key, file_id) ==
    Append(pays, [id |-> new_payment_id(pays)] @@ NewPayment(uid, plan_key, file_id))

set_payment_status_lost(pays, pid, status) == pays

set_payment_status_restamps(pays, pid, status) ==
    [i \in 1..Len(pays) |->
        IF pays[i].id = pid
        THEN [pays[i] EXCEPT !.status = status, !.created_at = isoformat(now)]
        ELSE pays[i]]

set_payment_status_of_owner(pays, pid, status) ==
    [i \in 1..Len(pays) |->
        IF \E k \in 1..Len(pays) : pays[k].id = pid /\ pays[k].user_id = pays[i].user_id
        THEN [pays[i] EXCEPT !.status = status] ELSE pays[i]]

(* UPDATE payments SET status=? WHERE id=? / update_one({"_id": ...}) *)
set_payment_status(pays, pid, status) ==
    [i \in 1..Len(pays) |->
        IF pays[i].id = pid THEN [pays[i] EXCEPT !.status = status] ELSE pays[i]]

get_payment(pid) ==
    IF pid \in 1..Len(payments) THEN <<payments[pid]>> ELSE << >>

----------------------------------------------------------------------------
(* Snapshot read by a sweep pass *)

Min(a, b) == IF a < b THEN a ELSE b

ListLimit == 10000

(* COALESCE(end_at,'') as a sort key: NULL sorts below every timestamp *)
EndKey(r) == IF r.end_at = NULL THEN -1 ELSE fromisoformat(r.end_at)

IsDescending(rows) ==
    \A i \in 1..(Len(rows) - 1) : EndKey(rows[i]) >= EndKey(rows[i + 1])

RowOrders(rows) ==
    {[i \in 1..Len(rows) |-> rows[f[i]]] :
        f \in {g \in [1..Len(rows) -> 1..Len(rows)] :
                 \A i, j \in 1..Len(rows) : i # j => g[i] # g[j]}}

(* code.py list_users: ORDER BY COALESCE(end_at,'') DESC LIMIT ?, rows of
   equal key in any order *)
list_users(limit) ==
    {SubSeq(rs, 1, Min(Len(rs), limit)) : rs \in {p \in RowOrders(users) : IsDescending(p)}}

(* main.py: users_col.find({"status": {"$in": ["active", "expired"]}}) *)
find_subscribed ==
    SelectSeq(users, LAMBDA r : r.status \in {"active", "expired"})

(* the columns of a row that the pass reads *)
ReadColumns(r) ==
    [user_id |-> r.user_id, end_at |-> r.end_at, status |-> r.status,
     reminded_3d |-> r.reminded_3d]

Project(rows) == [i \in 1..Len(rows) |-> ReadColumns(rows[i])]

sweep_snapshots ==
    IF variant = "code" THEN {Project(rs) : rs \in list_users(ListLimit)}
    ELSE {Project(find_subscribed)}

(* sqlite3.Row has no get method: r.get("reminded_3d", 0) raises
   AttributeError; the documents of main.py are dicts *)
row_has_get == variant = "main"

remind_due_past_end(row, t) ==
    /\ row.status = "active"
    /\ ~row.reminded_3d
    /\ fromisoformat(row.end_at) - t <= ReminderDays

remind_due(row, t) ==
    /\ row.status = "active"
    /\ ~row.reminded_3d
    /\ fromisoformat(row.end_at) > t
    /\ fromisoformat(row.end_at) - t <= ReminderDays

expiry_due_ignores_status(row, t) == fromisoformat(row.end_at) <= t

expiry_due(row, t) ==
    /\ fromisoformat(row.end_at) <= t
    /\ row.status # "expired"

----------------------------------------------------------------------------
(* Support (main.py): tickets is tickets_col in insertion order, mode is
   users_in_support, texts are the on_user_text handlers that are running,
   each with the point it has reached and the ticket its read returned *)
NoSupport == [tickets |-> << >>, mode |-> {}, texts |-> << >>]

----------------------------------------------------------------------------
(* Broadcast: no chat is in an FSM state and no loop is running.  state is
   the FSM state per chat (BCast.waiting_text or none); rows are the
   recipients the loop has still to go through, snapshot the recipients it
   read at its start, attempted the recipients it has been through *)
NoBroadcast ==
    [state |-> [u \in Ids |-> "none"], run |-> "idle", rows |-> << >>,
     snapshot |-> << >>, attempted |-> << >>, sent |-> 0, failed |-> 0]

----------------------------------------------------------------------------
Init ==
    /\ variant \in Variants
    /\ now = 0
    /\ users = << >>
    /\ payments = << >>
    /\ last_selected_plan = [u \in Customers |-> "null"]
    /\ sweep_pc = "sleep"
    /\ sweep_now = 0
    /\ sweep_rows = << >>
    /\ grants = 0
    /\ upserting = << >>
    /\ counting = << >>
    /\ support = NoSupport
    /\ broadcast = NoBroadcast
    /\ log = << >>

(* the clock advances; a sweep pass lasts seconds, so it does not span a tick *)
Tick(d) ==
    /\ log = << >>
    /\ sweep_pc = "sleep"
    /\ now + d <= MaxNow
    /\ now' = now + d
    /\ log' = << >>
    /\ UNCHANGED upserting
    /\ UNCHANGED counting
    /\ UNCHANGED support
    /\ UNCHANGED broadcast
    /\ UNCHANGED <<variant, users, payments, last_selected_plan,
                   sweep_pc, sweep_now, sweep_rows, grants>>

(* /start: on_start (code.py), cmd_start (main.py) *)
on_start(caller, profile) ==
    /\ log = << >>
    /\ users' = upsert_user(users, caller, profile)
    /\ log' = <<Ev("on_start", caller), Ev("upsert_user", caller), Ev("answer_menu", caller)>>
    /\ UNCHANGED upserting
    /\ UNCHANGED counting
    /\ support' = [support EXCEPT !.mode = @ \ {caller}]
    /\ UNCHANGED broadcast
    /\ UNCHANGED <<variant, now, payments, last_selected_plan,
                   sweep_pc, sweep_now, sweep_rows, grants>>

(* what a plan callback leaves in last_selected_plan: code.py returns on an
   unknown key before the assignment, main.py assigns and then raises KeyError *)
select_plan(sel, caller, key) ==
    IF variant = "code" /\ key \notin DOMAIN PLANS THEN sel
    ELSE [sel EXCEPT ![caller] = key]

select_answer(caller, key, answer) ==
    IF key \in DOMAIN PLANS THEN Ev(answer, caller)
    ELSE IF variant = "code" THEN Ev("answer_invalid_plan", caller)
    ELSE Ev("handler_raised", caller)

(* plan:<key> (code.py) / plan_<key> (main.py) *)
on_plan(caller, key) ==
    /\ log = << >>
    /\ last_selected_plan' = select_plan(last_selected_plan, caller, key)
    /\ log' = <<Ev("on_plan", caller), select_answer(caller, key, "answer_plan")>>
    /\ UNCHANGED upserting
    /\ UNCHANGED counting
    /\ UNCHANGED support
    /\ UNCHANGED broadcast
    /\ UNCHANGED <<variant, now, users, payments,
                   sweep_pc, sweep_now, sweep_rows, grants>>

(* pay:ask:<key> (code.py) / upload_<key> (main.py) *)
on_pay_ask(caller, key) ==
    /\ log = << >>
    /\ last_selected_plan' = select_plan(last_selected_plan, caller, key)
    /\ log' = <<Ev("on_pay_ask", caller),
                select_answer(caller, key, "answer_send_screenshot")>>
    /\ UNCHANGED upserting
    /\ UNCHANGED counting
    /\ UNCHANGED support
    /\ UNCHANGED broadcast
    /\ UNCHANGED <<variant, now, users, payments,
                   sweep_pc, sweep_now, sweep_rows, grants>>

photo_plan_of_admin(caller) == last_selected_plan[ADMIN_ID]

(* the plan a photo is filed under: code.py defaults to "plan1" *)
photo_plan(caller) ==
    IF variant = "code" /\ last_selected_plan[caller] = "null" THEN "plan1"
    ELSE last_selected_plan[caller]

photo_rejected(caller) ==
    IF variant = "code" THEN photo_plan(caller) \notin DOMAIN PLANS
    ELSE photo_plan(caller) = "null"

(* the admin's photos never reach the payment path: code.py's message filter
   is F.from_user.id != ADMIN_ID, main.py's handler returns on is_admin *)
photo_from_admin(caller) ==
    IF variant = "code" THEN caller = ADMIN_ID ELSE is_admin(caller)

(* a photo message *)
on_payment_photo(caller, file_id) ==
    /\ log = << >>
    /\ Len(payments) < MaxPayments
    /\ IF photo_from_admin(caller)
       THEN /\ payments' = payments
            /\ log' = <<Ev("on_payment_photo", caller)>>
       ELSE IF photo_rejected(caller)
       THEN /\ payments' = payments
            /\ log' = <<Ev("on_payment_photo", caller),
                        Ev("answer_select_plan_first", caller)>>
       ELSE /\ payments' = add_payment(payments, caller, photo_plan(caller), file_id)
            /\ log' = IF photo_plan(caller) \in DOMAIN PLANS
                      THEN <<Ev("on_payment_photo", caller),
                             Ev("add_payment", Len(payments) + 1),
                             Ev("notify_admin", Len(payments) + 1),
                             Ev("answer_received", caller)>>
                      ELSE <<Ev("on_payment_photo", caller),
                             Ev("add_payment", Len(payments) + 1),
                             Ev("answer_error", caller)>>
    /\ UNCHANGED upserting
    /\ UNCHANGED counting
    /\ UNCHANGED support
    /\ UNCHANGED broadcast
    /\ UNCHANGED <<variant, now, users, last_selected_plan,
                   sweep_pc, sweep_now, sweep_rows, grants>>

(* the plan an approval grants: code.py takes it from the button the admin
   pressed, main.py from the payment record *)
approve_plan(pid, clicked) ==
    IF variant = "code" THEN clicked ELSE payments[pid].plan_key

(* the UPDATE / update_one of set_subscription can raise (sqlite3.Error,
   a driver error); both variants log the error inside set_subscription and
   return normally, so admin_approve proceeds either way *)
set_subscription_outcome(saved) ==
    IF saved THEN "set_subscription" ELSE "set_subscription_failed"

(* admin:approve:<pid>:<uid>:<plan> (code.py) / approve_<pid>_<uid> (main.py);
   the buttons carry the id and the owner of an existing payment *)
admin_approve(caller, pid) ==
    LET uid == payments[pid].user_id IN
    /\ log = << >>
    /\ IF ~is_admin(caller)
       THEN /\ log' = <<Ev("admin_approve", caller), Ev("answer_admins_only", caller)>>
            /\ UNCHANGED <<users, payments, grants>>
       ELSE \E clicked \in ApproveClicks :
            LET plan_key == approve_plan(pid, clicked) IN
            IF plan_key \notin DOMAIN PLANS
            THEN /\ log' = <<Ev("admin_approve", caller), Ev("pid", pid),
                             Ev(IF variant = "code" THEN "answer_unknown_plan"
                                ELSE "answer_error", caller)>>
                 /\ UNCHANGED <<users, payments, grants>>
            ELSE \E saved \in BOOLEAN :
                 /\ payments' = set_payment_status(payments, pid, "approved")
                 /\ IF saved
                    THEN /\ grants < MaxGrants
                         /\ grants' = grants + 1
                         /\ users' = set_subscription(users, uid, plan_key,
                                                      PLANS[plan_key], now)
                    ELSE UNCHANGED <<users, grants>>
                 /\ \E sent \in BOOLEAN :
                      log' = <<Ev("admin_approve", caller), Ev("pid", pid),
                               Ev("set_payment_status", pid),
                               Ev(set_subscription_outcome(saved), uid)>> \o
                             (IF sent
                              THEN <<Ev("send_approved", uid), Ev("answer_approved", caller)>>
                              ELSE <<Ev("send_approved_failed", uid),
                                     Ev("answer_error", caller)>>)
    /\ UNCHANGED upserting
    /\ UNCHANGED counting
    /\ UNCHANGED support
    /\ UNCHANGED broadcast
    /\ UNCHANGED <<variant, now, last_selected_plan, sweep_pc, sweep_now, sweep_rows>>

(* admin:deny:<pid>:<uid> (code.py) / deny_<pid>_<uid> (main.py) *)
admin_deny(caller, pid) ==
    LET uid == payments[pid].user_id IN
    /\ log = << >>
    /\ IF ~is_admin(caller)
       THEN /\ log' = <<Ev("admin_deny", caller), Ev("answer_admins_only", caller)>>
            /\ UNCHANGED payments
       ELSE /\ payments' = set_payment_status(payments, pid, "denied")
            /\ \E sent \in BOOLEAN :
                 log' = <<Ev("admin_deny", caller), Ev("pid", pid),
                          Ev("set_payment_status", pid)>> \o
                        (IF sent
                         THEN <<Ev("send_denied", uid), Ev("answer_denied", caller)>>
                         ELSE IF variant = "code"
                         THEN <<Ev("send_denied_failed", uid), Ev("answer_denied", caller)>>
                         ELSE <<Ev("send_denied_failed", uid), Ev("answer_error", caller)>>)
    /\ UNCHANGED upserting
    /\ UNCHANGED counting
    /\ UNCHANGED support
    /\ UNCHANGED broadcast
    /\ UNCHANGED <<variant, now, users, last_selected_plan,
                   sweep_pc, sweep_now, sweep_rows, grants>>

----------------------------------------------------------------------------
(* expiry_worker *)

(* top of the loop: now = datetime.now(), rows = the snapshot *)
sweep_begin ==
    /\ log = << >>
    /\ sweep_pc = "sleep"
    /\ sweep_pc' = "run"
    /\ sweep_now' = now
    /\ sweep_rows' \in sweep_snapshots
    /\ log' = <<Ev("sweep_begin", 0)>>
    /\ UNCHANGED upserting
    /\ UNCHANGED counting
    /\ UNCHANGED support
    /\ UNCHANGED broadcast
    /\ UNCHANGED <<variant, now, users, payments, last_selected_plan, grants>>

sweep_remind_marks_unsent(rows, row, t, ok) ==
    IF remind_due(row, t) THEN mark_reminded(rows, row.user_id) ELSE rows

(* the reminder branch of the loop body for one row *)
sweep_remind(rows, row, t, ok) ==
    IF remind_due(row, t) /\ ok THEN mark_reminded(rows, row.user_id) ELSE rows

sweep_remind_log(row, t, ok) ==
    IF ~remind_due(row, t) THEN << >>
    ELSE IF ok THEN <<Ev("send_reminder", row.user_id), Ev("mark_reminded", row.user_id)>>
    ELSE <<Ev("send_reminder_failed", row.user_id)>>

sweep_expire_ends_term(rows, row, t) ==
    IF expiry_due(row, t)
    THEN [i \in 1..Len(rows) |->
            IF i \in updated_rows(rows, row.user_id)
            THEN [rows[i] EXCEPT !.status = "expired", !.end_at = isoformat(t)]
            ELSE rows[i]]
    ELSE rows

(* the expiry branch of the loop body for one row *)
sweep_expire(rows, row, t) ==
    IF expiry_due(row, t) THEN set_status(rows, row.user_id, "expired") ELSE rows

sweep_expire_log_stops_at_ban(row, t, banned, told) ==
    IF ~expiry_due(row, t) THEN << >>
    ELSE IF ~banned
    THEN <<Ev("set_expired", row.user_id), Ev("revoke_failed", row.user_id)>>
    ELSE <<Ev("set_expired", row.user_id), Ev("revoke", row.user_id),
           Ev(IF told THEN "send_expired" ELSE "send_expired_failed", row.user_id)>>

sweep_expire_log(row, t, banned, told) ==
    IF ~expiry_due(row, t) THEN << >>
    ELSE <<Ev("set_expired", row.user_id),
           Ev(IF banned THEN "revoke" ELSE "revoke_failed", row.user_id),
           Ev(IF told THEN "send_expired" ELSE "send_expired_failed", row.user_id)>>

(* the outbound calls of one iteration that can fail *)
SendOutcomes(row, t) ==
    {o \in [remind : BOOLEAN, ban : BOOLEAN, tell : BOOLEAN] :
        /\ (~remind_due(row, t) => o.remind)
        /\ (~expiry_due(row, t) => o.ban /\ o.tell)}

on_pass_error_propagates == "dead"

(* an exception raised inside the pass is caught by the except around it,
   which logs it; the worker goes on to asyncio.sleep *)
on_pass_error == "sleep"

(* one iteration of "for r in rows"; in code.py the iteration raises at
   r.get and the except around the loop ends the pass *)
sweep_user ==
    LET row == Head(sweep_rows) IN
    /\ log = << >>
    /\ sweep_pc = "run"
    /\ sweep_rows # << >>
    /\ IF ~row_has_get
       THEN /\ sweep_rows' = << >>
            /\ sweep_pc' = on_pass_error
            /\ sweep_now' = 0
            /\ users' = users
            /\ log' = <<Ev("sweep_user", row.user_id), Ev("sweep_error", row.user_id)>>
       ELSE /\ sweep_rows' = Tail(sweep_rows)
            /\ UNCHANGED <<sweep_pc, sweep_now>>
            /\ IF row.end_at = NULL
               THEN /\ users' = users
                    /\ log' = <<Ev("sweep_user", row.user_id)>>
               ELSE \E o \in SendOutcomes(row, sweep_now) :
                    /\ users' = sweep_expire(sweep_remind(users, row, sweep_now, o.remind),
                                             row, sweep_now)
                    /\ log' = <<Ev("sweep_user", row.user_id)>> \o
                              sweep_remind_log(row, sweep_now, o.remind) \o
                              sweep_expire_log(row, sweep_now, o.ban, o.tell)
    /\ UNCHANGED upserting
    /\ UNCHANGED counting
    /\ UNCHANGED support
    /\ UNCHANGED broadcast
    /\ UNCHANGED <<variant, now, payments, last_selected_plan, grants>>

(* the loop is over: asyncio.sleep(1800) *)
sweep_end ==
    /\ log = << >>
    /\ sweep_pc = "run"
    /\ sweep_rows = << >>
    /\ sweep_pc' = "sleep"
    /\ sweep_now' = 0
    /\ log' = <<Ev("sweep_end", 0)>>
    /\ UNCHANGED upserting
    /\ UNCHANGED counting
    /\ UNCHANGED support
    /\ UNCHANGED broadcast
    /\ UNCHANGED <<variant, now, users, payments, last_selected_plan,
                   sweep_rows, grants>>

(* the effects recorded for the last update are dropped once it has been
   handled; the stored state is not touched *)
handler_returns ==
    /\ log # << >>
    /\ log' = << >>
    /\ UNCHANGED upserting
    /\ UNCHANGED counting
    /\ UNCHANGED support
    /\ UNCHANGED broadcast
    /\ UNCHANGED <<variant, now, users, payments, last_selected_plan,
                   sweep_pc, sweep_now, sweep_rows, grants>>

(* one update, one step of expiry_worker, or the return of a handler *)
Next ==
    \/ \E d \in TickDays : Tick(d)
    \/ \E c \in Customers, p \in Profiles : on_start(c, p)
    \/ \E c \in Customers, k \in PlanInputs : on_plan(c, k)
    \/ \E c \in Customers, k \in PlanInputs : on_pay_ask(c, k)
    \/ \E c \in Ids, f \in FileIds : on_payment_photo(c, f)
    \/ \E c \in Ids, pid \in 1..Len(payments) : admin_approve(c, pid)
    \/ \E c \in Ids, pid \in 1..Len(payments) : admin_deny(c, pid)
    \/ sweep_begin
    \/ sweep_user
    \/ sweep_end
    \/ handler_returns

Spec == Init /\ [][Next]_vars

(* the same program after the admin has run /start: on_start upserts every
   caller, so the admin has a row in users (code.py 316-318, main.py 402-403) *)
InitAdminStarted ==
    /\ variant \in Variants
    /\ now = 0
    /\ users = upsert_user(<< >>, ADMIN_ID, "a")
    /\ payments = << >>
    /\ last_selected_plan = [u \in Customers |-> "null"]
    /\ sweep_pc = "sleep"
    /\ sweep_now = 0
    /\ sweep_rows = << >>
    /\ grants = 0
    /\ upserting = << >>
    /\ counting = << >>
    /\ support = NoSupport
    /\ broadcast = NoBroadcast
    /\ log = << >>

SpecAdminStarted == InitAdminStarted /\ [][Next]_vars

----------------------------------------------------------------------------
(* upsert_user under concurrent updates.  aiogram runs each update's handler
   as its own task and both handlers await upsert_user, so several upserts of
   one user can be in progress at once.  code.py's INSERT ... ON CONFLICT is
   one statement on a table whose user_id is the PRIMARY KEY; main.py's
   update_one(..., upsert=True) first looks for a document with the user_id
   and inserts one when it found none, on a collection that has no unique
   index on user_id. *)

RemoveAt(seq, k) == SubSeq(seq, 1, k - 1) \o SubSeq(seq, k + 1, Len(seq))

(* the upsert reaches the store: code.py writes the row at once, main.py
   updates the first matching document or, when nothing matches, goes on to
   insert *)
upsert_user_match(caller, profile) ==
    /\ IF variant = "code" \/ IndexOf(users, caller, 1) # 0
       THEN /\ users' = upsert_user(users, caller, profile)
            /\ UNCHANGED upserting
       ELSE /\ Len(upserting) < MaxUpserting
            /\ upserting' = Append(upserting, [user_id |-> caller, profile |-> profile])
            /\ UNCHANGED users
    /\ UNCHANGED counting
    /\ UNCHANGED support
    /\ UNCHANGED broadcast
    /\ UNCHANGED <<variant, now, payments, last_selected_plan,
                   sweep_pc, sweep_now, sweep_rows, grants, log>>

(* an upsert that matched nothing inserts its document *)
upsert_user_insert(k) ==
    /\ users' = Append(users, NewUser(upserting[k].user_id, upserting[k].profile))
    /\ upserting' = RemoveAt(upserting, k)
    /\ UNCHANGED counting
    /\ UNCHANGED support
    /\ UNCHANGED broadcast
    /\ UNCHANGED <<variant, now, payments, last_selected_plan,
                   sweep_pc, sweep_now, sweep_rows, grants, log>>

NextUpserts ==
    \/ \E c \in Ids, p \in Profiles : upsert_user_match(c, p)
    \/ \E k \in 1..Len(upserting) : upsert_user_insert(k)

SpecUpserts == Init /\ [][NextUpserts]_vars

----------------------------------------------------------------------------
(* Plan selection and proof upload by every chat user.  on_plan and
   on_pay_ask have no admin filter, so the admin's selections are recorded in
   last_selected_plan next to the customers'. *)

InitUploads ==
    /\ variant \in Variants
    /\ now = 0
    /\ users = << >>
    /\ payments = << >>
    /\ last_selected_plan = [u \in Ids |-> "null"]
    /\ sweep_pc = "sleep"
    /\ sweep_now = 0
    /\ sweep_rows = << >>
    /\ grants = 0
    /\ upserting = << >>
    /\ counting = << >>
    /\ support = NoSupport
    /\ broadcast = NoBroadcast
    /\ log = << >>

NextUploads ==
    \/ \E c \in Ids, k \in PlanInputs : on_plan(c, k)
    \/ \E c \in Ids, k \in PlanInputs : on_pay_ask(c, k)
    \/ \E c \in Ids, f \in FileIds : on_payment_photo(c, f)
    \/ handler_returns

SpecUploads == InitUploads /\ [][NextUploads]_vars

----------------------------------------------------------------------------
(* Broadcast: bc_start / bc_send (code.py), admin_broadcast_start /
   broadcast_send (main.py) *)

(* SELECT user_id FROM users / users_col.find({}, {"user_id": 1}) *)
bc_recipients(rows) == [i \in 1..Len(rows) |-> rows[i].user_id]

bc_tally_drops_failures(b, ok) ==
    IF ok THEN [b EXCEPT !.sent = @ + 1] ELSE b

(* sent += 1 after the send, fail += 1 in the except around it *)
bc_tally(b, ok) ==
    IF ok THEN [b EXCEPT !.sent = @ + 1] ELSE [b EXCEPT !.failed = @ + 1]

(* the Broadcast button *)
bc_start(caller) ==
    /\ log = << >>
    /\ IF ~is_admin(caller)
       THEN /\ log' = <<Ev("bc_start", caller), Ev("answer_admins_only", caller)>>
            /\ UNCHANGED broadcast
       ELSE /\ broadcast' = [broadcast EXCEPT !.state[caller] = "waiting_text"]
            /\ log' = <<Ev("bc_start", caller), Ev("answer_send_text", caller)>>
    /\ UNCHANGED <<variant, now, users, payments, last_selected_plan,
                   sweep_pc, sweep_now, sweep_rows, grants, upserting, counting, support>>

(* a message of a chat whose FSM state is BCast.waiting_text: the recipients
   are read and the loop starts; main.py returns at once when there are none *)
bc_send(caller) ==
    /\ log = << >>
    /\ broadcast.state[caller] = "waiting_text"
    /\ broadcast.run = "idle"
    /\ IF ~is_admin(caller)
       THEN /\ broadcast' = [broadcast EXCEPT !.state[caller] = "none"]
            /\ log' = <<Ev("bc_send", caller)>>
       ELSE IF variant = "main" /\ users = << >>
       THEN /\ broadcast' = [broadcast EXCEPT !.state[caller] = "none"]
            /\ log' = <<Ev("bc_send", caller), Ev("answer_no_users", caller)>>
       ELSE /\ broadcast' = [broadcast EXCEPT !.run = "loop",
                                              !.rows = bc_recipients(users),
                                              !.snapshot = bc_recipients(users),
                                              !.attempted = << >>,
                                              !.sent = 0, !.failed = 0]
            /\ log' = <<Ev("bc_send", caller)>>
    /\ UNCHANGED <<variant, now, users, payments, last_selected_plan,
                   sweep_pc, sweep_now, sweep_rows, grants, upserting, counting, support>>

(* one iteration of the loop: bot.send_message in its own try *)
bc_step ==
    /\ log = << >>
    /\ broadcast.run = "loop"
    /\ broadcast.rows # << >>
    /\ \E ok \in BOOLEAN :
         /\ broadcast' = [bc_tally(broadcast, ok) EXCEPT
                             !.rows = Tail(broadcast.rows),
                             !.attempted = Append(broadcast.attempted, Head(broadcast.rows))]
         /\ log' = <<Ev("bc_step", Head(broadcast.rows)),
                     Ev(IF ok THEN "send_broadcast" ELSE "send_broadcast_failed",
                        Head(broadcast.rows))>>
    /\ UNCHANGED <<variant, now, users, payments, last_selected_plan,
                   sweep_pc, sweep_now, sweep_rows, grants, upserting, counting, support>>

(* after the loop: the report to the admin and state.clear() *)
bc_done ==
    /\ log = << >>
    /\ broadcast.run = "loop"
    /\ broadcast.rows = << >>
    /\ broadcast' = NoBroadcast
    /\ log' = <<Ev("bc_done", ADMIN_ID), Ev("report_sent", broadcast.sent),
                Ev("report_failed", broadcast.failed)>>
    /\ UNCHANGED <<variant, now, users, payments, last_selected_plan,
                   sweep_pc, sweep_now, sweep_rows, grants, upserting, counting, support>>

(* broadcasts while users register *)
NextBroadcast ==
    \/ \E c \in Ids, p \in Profiles : on_start(c, p)
    \/ \E c \in Ids : bc_start(c)
    \/ \E c \in Ids : bc_send(c)
    \/ bc_step
    \/ bc_done
    \/ handler_returns

SpecBroadcast == Init /\ [][NextBroadcast]_vars

----------------------------------------------------------------------------
(* The Store functions called one at a time, each with the failures the store
   can raise under it.  "connect": opening the store fails (sqlite3.connect in
   db() raises sqlite3.OperationalError; in main.py the driver connects inside
   the awaited collection call).  "operation": the statement or the awaited
   collection call raises.  The log of a call is the call, a "store_failed"
   entry when a failure was injected, and what the caller gets; the next call
   starts when the caller has taken the result (handler_returns). *)

Faults == {"none", "connect", "operation"}

StoreStatuses == {"expired"}
StorePlans == {"plan1"}
PaymentStatuses == {"approved", "denied"}

(* the values the Store functions hand back on their except paths *)
Sentinels == {"returned_none", "returned_zero", "returned_empty", "returned_zeros"}

(* code.py: which except clause, if any, covers the failure.  upsert_user
   opens the connection outside its try; set_subscription returns start, end
   after its except; every other helper opens the connection inside the try *)
on_store_error_code(fn, fault) ==
    CASE fn = "upsert_user" -> IF fault = "connect" THEN "raised" ELSE "returned_none"
      [] fn \in {"get_user", "set_status", "set_payment_status", "mark_reminded"}
            -> "returned_none"
      [] fn = "set_subscription" -> "returned_start_end"
      [] fn = "add_payment" -> "returned_zero"
      [] fn \in {"list_users", "pending_payments"} -> "returned_empty"
      [] fn = "stats" -> "returned_zeros"

(* main.py: every function wraps its awaited call in try/except Exception;
   add_payment logs and re-raises *)
on_store_error_main(fn, fault) ==
    CASE fn \in {"upsert_user", "get_user", "set_subscription", "set_payment_status",
                 "get_payment"} -> "returned_none"
      [] fn = "add_payment" -> "raised"
      [] fn = "stats" -> "returned_zeros"

on_store_error(fn, fault) ==
    IF variant = "code" THEN on_store_error_code(fn, fault)
    ELSE on_store_error_main(fn, fault)

(* the log of one Store call *)
store_call(fn, id, fault, result) ==
    IF fault = "none" THEN <<Ev(fn, id)>> \o result
    ELSE <<Ev(fn, id), Ev("store_failed", 0), Ev(on_store_error(fn, fault), 0)>>

call_upsert_user(uid, profile, fault) ==
    /\ log = << >>
    /\ users' = IF fault = "none" THEN upsert_user(users, uid, profile) ELSE users
    /\ log' = store_call("upsert_user", uid, fault, <<Ev("returned_none", 0)>>)
    /\ UNCHANGED counting
    /\ UNCHANGED support
    /\ UNCHANGED broadcast
    /\ UNCHANGED <<variant, now, payments, last_selected_plan,
                   sweep_pc, sweep_now, sweep_rows, grants, upserting>>

call_get_user(uid, fault) ==
    /\ log = << >>
    /\ log' = store_call("get_user", uid, fault,
                         IF get_user(uid) = << >> THEN <<Ev("returned_none", 0)>>
                         ELSE <<Ev("returned_row", uid)>>)
    /\ UNCHANGED counting
    /\ UNCHANGED support
    /\ UNCHANGED broadcast
    /\ UNCHANGED <<variant, now, users, payments, last_selected_plan,
                   sweep_pc, sweep_now, sweep_rows, grants, upserting>>

(* code.py only: main.py has no set_status function *)
call_set_status(uid, status, fault) ==
    /\ log = << >>
    /\ variant = "code"
    /\ users' = IF fault = "none" THEN set_status(users, uid, status) ELSE users
    /\ log' = store_call("set_status", uid, fault, <<Ev("returned_none", 0)>>)
    /\ UNCHANGED counting
    /\ UNCHANGED support
    /\ UNCHANGED broadcast
    /\ UNCHANGED <<variant, now, payments, last_selected_plan,
                   sweep_pc, sweep_now, sweep_rows, grants, upserting>>

call_set_subscription(uid, plan_key, fault) ==
    /\ log = << >>
    /\ IF fault = "none"
       THEN /\ grants < MaxGrants
            /\ grants' = grants + 1
            /\ users' = set_subscription(users, uid, plan_key, PLANS[plan_key], now)
       ELSE UNCHANGED <<users, grants>>
    /\ log' = store_call("set_subscription", uid, fault, <<Ev("returned_start_end", 0)>>)
    /\ UNCHANGED counting
    /\ UNCHANGED support
    /\ UNCHANGED broadcast
    /\ UNCHANGED <<variant, now, payments, last_selected_plan,
                   sweep_pc, sweep_now, sweep_rows, upserting>>

call_add_payment(uid, plan_key, file_id, fault) ==
    /\ log = << >>
    /\ Len(payments) < MaxPayments
    /\ payments' = IF fault = "none" THEN add_payment(payments, uid, plan_key, file_id)
                   ELSE payments
    /\ log' = store_call("add_payment", uid, fault,
                         <<Ev("returned_id", new_payment_id(payments))>>)
    /\ UNCHANGED counting
    /\ UNCHANGED support
    /\ UNCHANGED broadcast
    /\ UNCHANGED <<variant, now, users, last_selected_plan,
                   sweep_pc, sweep_now, sweep_rows, grants, upserting>>

call_set_payment_status(pid, status, fault) ==
    /\ log = << >>
    /\ payments' = IF fault = "none" THEN set_payment_status(payments, pid, status)
                   ELSE payments
    /\ log' = store_call("set_payment_status", pid, fault, <<Ev("returned_none", 0)>>)
    /\ UNCHANGED counting
    /\ UNCHANGED support
    /\ UNCHANGED broadcast
    /\ UNCHANGED <<variant, now, users, last_selected_plan,
                   sweep_pc, sweep_now, sweep_rows, grants, upserting>>

(* SELECT COUNT( * ) ... WHERE status=? / count_documents({"status": ...}) *)
count_users(rows, status) == Cardinality({i \in 1..Len(rows) : rows[i].status = status})

count_payments(pays, status) == Cardinality({i \in 1..Len(pays) : pays[i].status = status})

StatNames == <<"total", "active", "expired", "pending">>

(* the k-th count of stats / get_stats, taken on the store as it is now *)
stats_query(k) ==
    CASE k = 1 -> Len(users)
      [] k = 2 -> count_users(users, "active")
      [] k = 3 -> count_users(users, "expired")
      [] k = 4 -> count_payments(payments, "pending")

stats_result(counts) == <<Ev("stats", 0)>> \o [k \in 1..4 |-> Ev(StatNames[k], counts[k])]

(* code.py's stats runs its four SELECTs without yielding; main.py's get_stats
   awaits each count_documents, so other tasks' writes can come between two
   counts: there each step takes one count and the fourth returns the
   result.  (The fifth count of main.py, open tickets, is left out.) *)
call_stats(fault) ==
    /\ log = << >>
    /\ IF fault # "none"
       THEN /\ log' = store_call("stats", 0, fault, << >>)
            /\ counting' = << >>
       ELSE IF variant = "code"
       THEN /\ log' = stats_result([k \in 1..4 |-> stats_query(k)])
            /\ counting' = << >>
       ELSE LET counts == Append(counting, stats_query(Len(counting) + 1)) IN
            IF Len(counts) < 4
            THEN /\ counting' = counts
                 /\ log' = << >>
            ELSE /\ counting' = << >>
                 /\ log' = stats_result(counts)
    /\ UNCHANGED support
    /\ UNCHANGED broadcast
    /\ UNCHANGED <<variant, now, users, payments, last_selected_plan,
                   sweep_pc, sweep_now, sweep_rows, grants, upserting>>

NextStore ==
    \/ \E u \in Ids, p \in Profiles, f \in Faults : call_upsert_user(u, p, f)
    \/ \E u \in Ids, f \in Faults : call_get_user(u, f)
    \/ \E u \in Ids, st \in StoreStatuses, f \in Faults : call_set_status(u, st, f)
    \/ \E u \in Ids, k \in StorePlans, f \in Faults : call_set_subscription(u, k, f)
    \/ \E u \in Ids, k \in StorePlans, fi \in FileIds, f \in Faults :
          call_add_payment(u, k, fi, f)
    \/ \E pid \in 1..Len(payments), st \in PaymentStatuses, f \in Faults :
          call_set_payment_status(pid, st, f)
    \/ \E f \in Faults : call_stats(f)
    \/ handler_returns

SpecStore == Init /\ [][NextStore]_vars

----------------------------------------------------------------------------
(* Properties *)

SubscriptionFields(r) ==
    [user_id |-> r.user_id, plan_key |-> r.plan_key, start_at |-> r.start_at,
     end_at |-> r.end_at, status |-> r.status, reminded_3d |-> r.reminded_3d]

ModerationSends ==
    {"send_approved", "send_approved_failed", "send_denied", "send_denied_failed"}

ExpiryEffects ==
    {"set_expired", "revoke", "revoke_failed", "send_expired", "send_expired_failed"}

EffectsOn(l, kinds, uid) == {i \in 1..Len(l) : l[i][1] \in kinds /\ l[i][2] = uid}

(* C1: a grant of D days to a user whose stored status is active and whose
   end_at is later than now stores start_at = now and end_at = old end_at + D,
   not now + D. *)
C1_RenewalExtension ==
    [][\A i \in 1..Len(users) :
          (/\ Has(log', "set_subscription", users[i].user_id)
           /\ users[i].status = "active"
           /\ users[i].end_at # NULL
           /\ users[i].end_at[1] > now)
          => /\ users'[i].start_at = <<now>>
             /\ users'[i].end_at = <<users[i].end_at[1] + PLANS[users'[i].plan_key]>>]_vars

(* C2: once a payment's status is approved or denied, no later admin decision
   on it changes its status. *)
C2_PaymentOneWay ==
    [][\A pid \in 1..Len(payments) :
          payments[pid].status # "pending"
          => payments'[pid].status = payments[pid].status]_vars

(* C3: an approve click on a payment that is already resolved is a no-op for
   the users table: start_at, end_at and reminded_3d of every user stay as the
   first click left them. *)
C3_NoDoubleGrant ==
    [][\A pid \in 1..Len(payments) :
          (/\ payments[pid].status # "pending"
           /\ Did(log', "admin_approve", ADMIN_ID)
           /\ log'[2] = Ev("pid", pid))
          => users' = users]_vars

(* C4: a grant of D days to a user whose status is not active, or who has no
   stored end_at, or whose end_at is not later than now, stores start_at = now,
   end_at = now + D and status = active. *)
C4_FreshGrant ==
    [][\A i \in 1..Len(users) :
          (/\ Has(log', "set_subscription", users[i].user_id)
           /\ \/ users[i].status # "active"
              \/ users[i].end_at = NULL
              \/ users[i].end_at[1] <= now)
          => /\ users'[i].start_at = <<now>>
             /\ users'[i].end_at = <<now + PLANS[users'[i].plan_key]>>
             /\ users'[i].status = "active"]_vars

(* a first grant has just been persisted for a user who has a row: nothing
   was stored in end_at before it *)
C4_Witness ==
    \E i \in 1..Len(users) :
        /\ Has(log, "set_subscription", users[i].user_id)
        /\ grants = 1
        /\ users[i].status = "active"
        /\ users[i].start_at = <<now>>

(* C5: upsert_user for an id that already has a row adds no row and leaves
   plan_key, start_at, end_at, status and reminded_3d of every row as they
   were. *)
C5_IdempotentUpsert ==
    [][\A c \in Ids :
          (Has(log', "upsert_user", c) /\ IndexOf(users, c, 1) # 0)
          => /\ Len(users') = Len(users)
             /\ \A j \in 1..Len(users) :
                   SubscriptionFields(users'[j]) = SubscriptionFields(users[j])]_vars

(* an upsert has just run for a user whose row holds a subscription *)
C5_Witness ==
    \E i \in 1..Len(users) :
        /\ Has(log, "upsert_user", users[i].user_id)
        /\ users[i].status \in {"active", "expired"}
        /\ users[i].profile = "b"

(* C6: a sweep iteration over a user with end_at <= now and status other than
   expired sets the user's status to expired, attempts the revocation and
   attempts the expiry notification. *)
C6_ExpiryApplied ==
    [][(/\ sweep_pc = "run"
        /\ sweep_rows # << >>
        /\ Did(log', "sweep_user", Head(sweep_rows).user_id)
        /\ Head(sweep_rows).end_at # NULL
        /\ Head(sweep_rows).end_at[1] <= sweep_now
        /\ Head(sweep_rows).status # "expired")
       => /\ \A j \in 1..Len(users) :
                users[j].user_id = Head(sweep_rows).user_id
                => users'[j].status = "expired"
          /\ EffectsOn(log', {"revoke", "revoke_failed"}, Head(sweep_rows).user_id) # {}
          /\ EffectsOn(log', {"send_expired", "send_expired_failed"},
                       Head(sweep_rows).user_id) # {}]_vars

(* C7: a sweep iteration over a user with status active, reminded_3d false and
   0 < end_at - now <= 3 days attempts exactly one reminder, and a reminder
   that was sent sets reminded_3d; no reminder is sent to a user whose stored
   reminded_3d is already true. *)
C7_ReminderFires ==
    [][/\ (/\ sweep_pc = "run"
           /\ sweep_rows # << >>
           /\ Did(log', "sweep_user", Head(sweep_rows).user_id)
           /\ Head(sweep_rows).status = "active"
           /\ ~Head(sweep_rows).reminded_3d
           /\ Head(sweep_rows).end_at # NULL
           /\ Head(sweep_rows).end_at[1] > sweep_now
           /\ Head(sweep_rows).end_at[1] - sweep_now <= ReminderDays)
          => /\ Cardinality(EffectsOn(log', {"send_reminder", "send_reminder_failed"},
                                      Head(sweep_rows).user_id)) = 1
             /\ Has(log', "send_reminder", Head(sweep_rows).user_id)
                => \A j \in 1..Len(users) :
                      users[j].user_id = Head(sweep_rows).user_id
                      => users'[j].reminded_3d
       /\ \A j \in 1..Len(users) :
             Has(log', "send_reminder", users[j].user_id) => ~users[j].reminded_3d]_vars

(* C8: a sweep iteration over a user whose stored status is expired writes
   nothing, revokes nothing and notifies nothing; a revocation or an expiry
   notification is made only in the step that turns the stored status from
   not expired to expired. *)
C8_ExpiryIdempotent ==
    [][\A j \in 1..Len(users) :
          /\ (Did(log', "sweep_user", users[j].user_id) /\ users[j].status = "expired")
             => /\ users' = users
                /\ EffectsOn(log', ExpiryEffects, users[j].user_id) = {}
          /\ EffectsOn(log', ExpiryEffects, users[j].user_id) # {}
             => /\ users[j].status # "expired"
                /\ users'[j].status = "expired"]_vars

(* a sweep iteration has just passed over an expired user without any effect *)
C8_Witness ==
    \E i \in 1..Len(users) :
        /\ log = <<Ev("sweep_user", users[i].user_id)>>
        /\ users[i].status = "expired"

(* C9: an approve or deny callback from a caller other than ADMIN_ID leaves
   every payment and every user row unchanged and sends nothing to the
   payment's owner. *)
C9_AdminOnly ==
    [][\A c \in Ids \ {ADMIN_ID} :
          (Did(log', "admin_approve", c) \/ Did(log', "admin_deny", c))
          => /\ users' = users
             /\ payments' = payments
             /\ \A i \in 1..Len(log') : log'[i][1] \notin ModerationSends]_vars

(* a caller other than the admin has just pressed approve or deny on a
   pending payment *)
C9_Witness ==
    \E c \in Ids \ {ADMIN_ID}, pid \in 1..Len(payments) :
        /\ Did(log, "admin_approve", c) \/ Did(log, "admin_deny", c)
        /\ payments[pid].user_id = c
        /\ payments[pid].status = "pending"

(* C10: right after set_subscription has persisted a grant, the user's
   reminded_3d is false. *)
C10_GrantClearsReminder ==
    \A i \in 1..Len(users) :
        Has(log, "set_subscription", users[i].user_id) => ~users[i].reminded_3d

(* a renewal has just been persisted inside the reminder window of the
   running term *)
C10_Witness ==
    \E i \in 1..Len(users) :
        /\ Has(log, "set_subscription", users[i].user_id)
        /\ grants = 2
        /\ now = 27
        /\ users[i].start_at = <<27>>
        /\ ~users[i].reminded_3d
(* C11: a user whose status is active has a stored end_at, and a step that
   persists a grant, the only write of status = active, stores an end_at
   strictly later than now. *)
C11_ActiveHasFutureEnd ==
    [][\A i \in 1..Len(users') :
          users'[i].status = "active"
          => /\ users'[i].end_at # NULL
             /\ Has(log', "set_subscription", users'[i].user_id)
                => users'[i].end_at[1] > now']_vars

(* a user was re-granted at day 30 and the stored term ends after day 30 *)
C11_Witness ==
    \E i \in 1..Len(users) :
        /\ Has(log, "set_subscription", users[i].user_id)
        /\ users[i].status = "active"
        /\ now = 30
        /\ users[i].start_at = <<30>>
        /\ users[i].end_at # NULL
        /\ users[i].end_at[1] > 30
(* C12: no step decreases a user's stored end_at. *)
C12_EndNeverDecreases ==
    [][\A i \in 1..Len(users) :
          users[i].end_at # NULL
          => /\ i <= Len(users')
             /\ users'[i].user_id = users[i].user_id
             /\ users'[i].end_at # NULL
             /\ users'[i].end_at[1] >= users[i].end_at[1]]_vars
(* C13: however a sweep pass and an approval for the same user interleave,
   the pass revokes or expires a user only if the stored record at that
   moment has an end_at that is not later than now, and when the pass is over
   no user is left with status = expired and a stored end_at later than now. *)
C13_SweepToleratesApproval ==
    [][/\ \A j \in 1..Len(users) :
             EffectsOn(log', {"set_expired", "revoke"}, users[j].user_id) # {}
             => /\ users[j].end_at # NULL
                /\ users[j].end_at[1] <= now
       /\ sweep_pc' = "sleep"
          => \A i \in 1..Len(users') :
                ~(/\ users'[i].status = "expired"
                  /\ users'[i].end_at # NULL
                  /\ users'[i].end_at[1] > now')]_vars
(* C14: when admin_approve handles a pending payment and answers the admin
   that it is approved, the payment's owner has a stored row with
   status = active and end_at later than now. *)
C14_ApprovalActivatesOwner ==
    [][\A pid \in 1..Len(payments) :
          (/\ payments[pid].status = "pending"
           /\ Did(log', "admin_approve", ADMIN_ID)
           /\ log'[2] = Ev("pid", pid)
           /\ Has(log', "answer_approved", ADMIN_ID))
          => \E i \in 1..Len(users') :
                /\ users'[i].user_id = payments[pid].user_id
                /\ users'[i].status = "active"
                /\ users'[i].end_at # NULL
                /\ users'[i].end_at[1] > now]_vars
(* C15: when the write of the grant fails, the approval flow does not tell
   the owner or the admin that the subscription is approved: no step both
   fails to save the grant and announces the approval. *)
C15_NoAnnouncementOfUnsavedGrant ==
    [][\A u \in Ids :
          Has(log', "set_subscription_failed", u)
          => /\ ~Has(log', "send_approved", u)
             /\ ~Has(log', "answer_approved", ADMIN_ID)]_vars
SweepFailures ==
    {"sweep_error", "send_reminder_failed", "revoke_failed", "send_expired_failed"}

(* C16: a failure while a sweep pass handles one user of its snapshot leaves
   every remaining user of the snapshot to be handled by the same pass. *)
C16_SweepIsolation ==
    [][(/\ sweep_pc = "run"
        /\ sweep_rows # << >>
        /\ Did(log', "sweep_user", Head(sweep_rows).user_id)
        /\ EffectsOn(log', SweepFailures, Head(sweep_rows).user_id) # {})
       => sweep_rows' = Tail(sweep_rows)]_vars
Before(l, i, kinds, id) == \E j \in 1..(i - 1) : l[j][1] \in kinds /\ l[j][2] = id

(* C17: in admin_approve and admin_deny every message to the payment's owner,
   delivered or failed, comes after the payment status write and, for an
   approval, after the subscription write; after the step the payment has the
   decided status and the owner's row is as the grant wrote it (for a denial:
   as it was), whether or not the message went out. *)
C17_CommitBeforeNotify ==
    [][\A pid \in 1..Len(payments) :
          LET uid == payments[pid].user_id IN
          /\ (Did(log', "admin_approve", ADMIN_ID) /\ log'[2] = Ev("pid", pid))
             => \A i \in EffectsOn(log', {"send_approved", "send_approved_failed"}, uid) :
                   /\ Before(log', i, {"set_payment_status"}, pid)
                   /\ Before(log', i, {"set_subscription", "set_subscription_failed"}, uid)
                   /\ payments'[pid].status = "approved"
                   /\ Has(log', "set_subscription", uid)
                      => \A k \in 1..Len(users') :
                            users'[k].user_id = uid
                            => /\ users'[k].status = "active"
                               /\ users'[k].start_at = <<now>>
                               /\ users'[k].plan_key \in DOMAIN PLANS
          /\ (Did(log', "admin_deny", ADMIN_ID) /\ log'[2] = Ev("pid", pid))
             => \A i \in EffectsOn(log', {"send_denied", "send_denied_failed"}, uid) :
                   /\ Before(log', i, {"set_payment_status"}, pid)
                   /\ payments'[pid].status = "denied"
                   /\ users' = users]_vars

(* an approval whose message to the owner failed: the payment is approved and
   the owner's row holds the grant *)
C17_Witness ==
    \E pid \in 1..Len(payments), k \in 1..Len(users) :
        /\ Did(log, "admin_approve", ADMIN_ID)
        /\ log[2] = Ev("pid", pid)
        /\ Has(log, "send_approved_failed", payments[pid].user_id)
        /\ Has(log, "set_subscription", payments[pid].user_id)
        /\ payments[pid].status = "approved"
        /\ users[k].user_id = payments[pid].user_id
        /\ users[k].status = "active"
        /\ users[k].start_at = <<now>>
(* C18: a step that adds payments adds them with status = pending and with an
   id that no earlier payment has; no step removes a payment or changes a
   payment's id. *)
C18_PaymentsCreatedPending ==
    [][/\ Len(payments') >= Len(payments)
       /\ \A i \in 1..Len(payments) : payments'[i].id = payments[i].id
       /\ \A i \in (Len(payments) + 1)..Len(payments') :
             /\ payments'[i].status = "pending"
             /\ \A j \in 1..Len(payments) : payments[j].id # payments'[i].id]_vars

(* a second payment has just been created while the first is already
   approved *)
C18_Witness ==
    /\ Len(payments) = 2
    /\ Has(log, "add_payment", payments[2].id)
    /\ payments[1].status = "approved"
    /\ payments[2].status = "pending"
    /\ payments[2].id # payments[1].id

(* C19: whatever the interleaving of upserts of one user id, once every upsert
   has completed the store holds at most one record for that id (and exactly
   one for an id that was upserted) *)
RowsOf(uid) == {i \in 1..Len(users) : users[i].user_id = uid}

C19_OneRecordPerUser ==
    upserting = << >> => \A u \in Ids : Cardinality(RowsOf(u)) <= 1


(* C20: a plan-selection or upload-request callback with a key that is not in
   PLANS raises no exception out of the handler and records no selection, so
   last_selected_plan holds only keys of PLANS and every stored payment has a
   plan_key that is a key of PLANS *)
C20_UnknownPlanRejected ==
    /\ \A c \in Customers : ~Has(log, "handler_raised", c)
    /\ \A c \in Customers : last_selected_plan[c] \in DOMAIN PLANS \cup {"null"}
    /\ \A i \in 1..Len(payments) : payments[i].plan_key \in DOMAIN PLANS

(* C21: a Store function whose store operation fails hands its caller a
   sentinel (None, 0, an empty list, zero counts), raises nothing, and leaves
   the stored users and payments as they were. *)
C21_StorageFailureSentinel ==
    [][Has(log', "store_failed", 0)
       => /\ log'[3][1] \in Sentinels
          /\ users' = users
          /\ payments' = payments]_vars

(* C22: when a sweep pass is over, no user is left with status = active and a
   stored end_at that is not later than the time of the pass, however long ago
   end_at passed and whether or not the user was reminded. *)
C22_SweepSelfHeals ==
    [][(sweep_pc = "run" /\ sweep_pc' = "sleep")
       => \A i \in 1..Len(users') :
             ~(/\ users'[i].status = "active"
               /\ users'[i].end_at # NULL
               /\ users'[i].end_at[1] <= sweep_now)]_vars

UserIds(rows) == {rows[i].user_id : i \in 1..Len(rows)}
PaymentIds(pays) == {pays[i].id : i \in 1..Len(pays)}

(* C23: no step removes a user or a payment: the set of user ids with a
   stored record and the set of stored payment ids only grow, and so do the
   numbers of records. *)
C23_NeverDeleted ==
    [][/\ UserIds(users) \subseteq UserIds(users')
       /\ PaymentIds(payments) \subseteq PaymentIds(payments')
       /\ Len(users') >= Len(users)
       /\ Len(payments') >= Len(payments)]_vars

(* a sweep pass has just expired a user whose payment had been approved: the
   user's row and the payment are still stored *)
C23_Witness ==
    \E i \in 1..Len(users), pid \in 1..Len(payments) :
        /\ Has(log, "set_expired", users[i].user_id)
        /\ users[i].status = "expired"
        /\ payments[pid].user_id = users[i].user_id
        /\ payments[pid].status = "approved"

(* C24: a statistics result computed without a storage failure holds
   total = number of user records, active = number of users with status
   active, expired = number of users with status expired, pending = number of
   pending payments of the store, and so active + expired <= total. *)
C24_StatsMatchStore ==
    (Did(log, "stats", 0) /\ ~Has(log, "store_failed", 0))
    => /\ log[2] = Ev("total", Len(users))
       /\ log[3] = Ev("active", count_users(users, "active"))
       /\ log[4] = Ev("expired", count_users(users, "expired"))
       /\ log[5] = Ev("pending", count_payments(payments, "pending"))
       /\ log[3][2] + log[4][2] <= log[2][2]

(* C25: a broadcast reads every stored user as a recipient; an iteration,
   whether its send succeeds or fails, makes one attempt and goes on to the
   next recipient; when the loop ends each recipient read at the start has
   been attempted exactly once, the reported sent + failed is their number,
   and the admin's FSM state is cleared. *)
C25_BroadcastIndependent ==
    [][/\ (broadcast.run = "idle" /\ broadcast'.run = "loop")
          => /\ broadcast'.rows = bc_recipients(users)
             /\ broadcast'.snapshot = bc_recipients(users)
       /\ (broadcast.run = "loop" /\ broadcast.rows # << >>
           /\ Did(log', "bc_step", Head(broadcast.rows)))
          => /\ broadcast'.run = "loop"
             /\ broadcast'.rows = Tail(broadcast.rows)
             /\ Cardinality(EffectsOn(log', {"send_broadcast", "send_broadcast_failed"},
                                      Head(broadcast.rows))) = 1
       /\ (broadcast.run = "loop" /\ broadcast'.run = "idle")
          => /\ broadcast.attempted = broadcast.snapshot
             /\ broadcast.sent + broadcast.failed = Len(broadcast.snapshot)
             /\ Has(log', "report_sent", broadcast.sent)
             /\ Has(log', "report_failed", broadcast.failed)
             /\ broadcast'.state[ADMIN_ID] = "none"]_vars

(* a broadcast to two users has just ended with one send failed and one
   delivered *)
C25_Witness ==
    /\ Did(log, "bc_done", ADMIN_ID)
    /\ Has(log, "report_sent", 1)
    /\ Has(log, "report_failed", 1)
    /\ Len(users) = 2
    /\ broadcast.state[ADMIN_ID] = "none"

(* C26: however a sweep pass and an approval for the same user interleave,
   the pass reminds a user, or sets reminded_3d, only if the stored record at
   that moment ends within the next 3 days, and when the pass is over no
   active user whose end_at is more than 3 days away has reminded_3d set. *)
C26_ReminderPerTerm ==
    [][/\ \A j \in 1..Len(users) :
             EffectsOn(log', {"send_reminder", "mark_reminded"}, users[j].user_id) # {}
             => /\ users[j].end_at # NULL
                /\ users[j].end_at[1] - now <= ReminderDays
       /\ sweep_pc' = "sleep"
          => \A i \in 1..Len(users') :
                (/\ users'[i].status = "active"
                 /\ users'[i].end_at # NULL
                 /\ users'[i].end_at[1] - now' > ReminderDays)
                => ~users'[i].reminded_3d]_vars

(* C27: a photo that creates a payment files it under the uploader's own
   latest selection and leaves every selection as it was, so a further photo
   creates another pending payment for the same plan; a plan selection or an
   upload request of one user changes no other user's selection. *)
C27_PaymentCarriesSelection ==
    [][\A c \in Ids :
          /\ Did(log', "on_payment_photo", c)
             => /\ last_selected_plan' = last_selected_plan
                /\ \A i \in (Len(payments) + 1)..Len(payments') :
                      /\ payments'[i].user_id = c
                      /\ payments'[i].status = "pending"
                      /\ last_selected_plan[c] # "null"
                         => payments'[i].plan_key = last_selected_plan[c]
          /\ (Did(log', "on_plan", c) \/ Did(log', "on_pay_ask", c))
             => \A u \in Ids \ {c} : last_selected_plan'[u] = last_selected_plan[u]]_vars

(* a second photo of user 2 has just created a second pending payment for the
   plan the user selected, while the admin's own selection is another plan *)
C27_Witness ==
    /\ Len(payments) = 2
    /\ Has(log, "add_payment", 2)
    /\ payments[1].plan_key = "plan2"
    /\ payments[2].plan_key = "plan2"
    /\ payments[2].status = "pending"
    /\ last_selected_plan[2] = "plan2"
    /\ last_selected_plan[ADMIN_ID] = "plan1"

(* C28: a photo from a user who has selected no plan is answered with the
   "select a plan first" message, creates no payment and notifies no admin. *)
C28_NoPlanNoPayment ==
    [][\A c \in Customers :
          (Did(log', "on_payment_photo", c) /\ last_selected_plan[c] = "null")
          => /\ payments' = payments
             /\ Has(log', "answer_select_plan_first", c)
             /\ \A i \in 1..Len(log') : log'[i][1] # "notify_admin"]_vars

(* C29: an approval of payment p that persists a grant stores p's plan_key in
   the owner's row and an end_at that is the grant of PLANS[p.plan_key] days. *)
C29_GrantsPaymentPlan ==
    [][\A pid \in 1..Len(payments) :
          (/\ Did(log', "admin_approve", ADMIN_ID)
           /\ log'[2] = Ev("pid", pid)
           /\ Has(log', "set_subscription", payments[pid].user_id))
          => \A k \in 1..Len(users') :
                users'[k].user_id = payments[pid].user_id
                => /\ users'[k].plan_key = payments[pid].plan_key
                   /\ users'[k].end_at =
                         <<grant_end(payments[pid].user_id,
                                     PLANS[payments[pid].plan_key], now)>>]_vars

(* C30: reminded_3d turns true only in a step whose reminder to that user was
   delivered, and mark_reminded comes after the delivery; a reminder whose
   send failed leaves the flag as it was; and an iteration that runs through
   over a snapshot row with status active, reminded_3d false and end_at within
   the next 3 days attempts the reminder, so a failed reminder is attempted
   again by the next pass that finds the user inside the window. *)
C30_RemindedAfterSend ==
    [][/\ \A j \in 1..Len(users) :
             LET uid == users[j].user_id IN
             /\ (users'[j].reminded_3d /\ ~users[j].reminded_3d)
                => Has(log', "send_reminder", uid)
             /\ \A i \in EffectsOn(log', {"mark_reminded"}, uid) :
                   Before(log', i, {"send_reminder"}, uid)
             /\ Has(log', "send_reminder_failed", uid)
                => /\ users'[j].reminded_3d = users[j].reminded_3d
                   /\ ~Has(log', "mark_reminded", uid)
       /\ (/\ sweep_pc = "run"
           /\ sweep_rows # << >>
           /\ Did(log', "sweep_user", Head(sweep_rows).user_id)
           /\ ~Has(log', "sweep_error", Head(sweep_rows).user_id)
           /\ Head(sweep_rows).status = "active"
           /\ ~Head(sweep_rows).reminded_3d
           /\ Head(sweep_rows).end_at # NULL
           /\ Head(sweep_rows).end_at[1] > sweep_now
           /\ Head(sweep_rows).end_at[1] - sweep_now <= ReminderDays)
          => EffectsOn(log', {"send_reminder", "send_reminder_failed"},
                       Head(sweep_rows).user_id) # {}]_vars

(* a reminder has just failed: the user is still active inside the 3-day
   window with reminded_3d false *)
C30_Witness ==
    \E j \in 1..Len(users) :
        /\ Has(log, "send_reminder_failed", users[j].user_id)
        /\ users[j].status = "active"
        /\ ~users[j].reminded_3d
        /\ users[j].end_at # NULL
        /\ users[j].end_at[1] > now
        /\ users[j].end_at[1] - now <= ReminderDays

ReminderEffects == {"send_reminder", "send_reminder_failed", "mark_reminded"}

(* C31: a pass reads every user at most once, and the iteration for a user
   never takes both the reminder branch and the expiry branch: no step
   attempts a reminder to a user and also expires, revokes or notifies the
   expiry of that same user. *)
C31_ReminderOrExpiry ==
    [][/\ Did(log', "sweep_begin", 0)
          => \A i, j \in 1..Len(sweep_rows') :
                sweep_rows'[i].user_id = sweep_rows'[j].user_id => i = j
       /\ \A u \in Ids :
             ~(/\ EffectsOn(log', ReminderEffects, u) # {}
               /\ EffectsOn(log', ExpiryEffects, u) # {})]_vars

(* the pass has just expired a user who was never reminded: active and not
   reminded in the snapshot, end_at not later than the pass's now *)
C31_Witness ==
    \E j \in 1..Len(users) :
        /\ Did(log, "sweep_user", users[j].user_id)
        /\ Has(log, "set_expired", users[j].user_id)
        /\ ~users[j].reminded_3d
        /\ users[j].status = "expired"

RevokeAttempts == {"revoke", "revoke_failed"}
ExpiryNotices == {"send_expired", "send_expired_failed"}

(* C32: when a pass expires a user, the status write comes first, the attempt
   to remove the user from the channel second and the attempt to notify the
   user last; a removal that fails leaves status = expired stored and the
   notification is still attempted. *)
C32_ExpiryOrder ==
    [][\A j \in 1..Len(users) :
          LET uid == users[j].user_id IN
          /\ \A i \in EffectsOn(log', RevokeAttempts, uid) :
                Before(log', i, {"set_expired"}, uid)
          /\ \A i \in EffectsOn(log', ExpiryNotices, uid) :
                Before(log', i, RevokeAttempts, uid)
          /\ Has(log', "set_expired", uid)
             => /\ users'[j].status = "expired"
                /\ EffectsOn(log', RevokeAttempts, uid) # {}
                /\ EffectsOn(log', ExpiryNotices, uid) # {}]_vars

(* the removal from the channel has just failed: the user is stored as
   expired and the notice was delivered *)
C32_Witness ==
    \E j \in 1..Len(users) :
        /\ Did(log, "sweep_user", users[j].user_id)
        /\ Has(log, "revoke_failed", users[j].user_id)
        /\ Has(log, "send_expired", users[j].user_id)
        /\ users[j].status = "expired"

SweepSteps == {"sweep_begin", "sweep_user", "sweep_end"}

(* C33: a step of the sweep worker leaves every payment as it was, adds and
   removes no user, and changes of a user at most status, to expired, and
   reminded_3d, to true: plan_key, start_at, end_at and the profile are
   unchanged, and status never becomes active or none. *)
C33_SweepWritesOnlyFlags ==
    [][(Len(log') >= 1 /\ log'[1][1] \in SweepSteps)
       => /\ payments' = payments
          /\ Len(users') = Len(users)
          /\ \A j \in 1..Len(users) :
                /\ users'[j].user_id = users[j].user_id
                /\ users'[j].profile = users[j].profile
                /\ users'[j].plan_key = users[j].plan_key
                /\ users'[j].start_at = users[j].start_at
                /\ users'[j].end_at = users[j].end_at
                /\ users'[j].status \in {users[j].status, "expired"}
                /\ users'[j].reminded_3d \in {users[j].reminded_3d, TRUE}]_vars

(* the pass has just reminded a user and set reminded_3d, with a payment
   stored *)
C33_Witness ==
    \E j \in 1..Len(users) :
        /\ Did(log, "sweep_user", users[j].user_id)
        /\ Has(log, "mark_reminded", users[j].user_id)
        /\ users[j].reminded_3d
        /\ users[j].status = "active"
        /\ users[j].plan_key \in DOMAIN PLANS
        /\ payments # << >>

(* C34: admin_deny changes nothing but the status of the payment it was
   given: every user record, the subscription fields included, and every
   other payment are as before, and so are the other fields of that payment;
   a caller who is not the admin changes nothing. *)
C34_DenyWritesOnePayment ==
    [][(Len(log') >= 1 /\ log'[1][1] = "admin_deny")
       => /\ users' = users
          /\ Len(payments') = Len(payments)
          /\ IF Len(log') >= 2 /\ log'[2][1] = "pid"
             THEN \A i \in 1..Len(payments) :
                     payments'[i] = IF payments[i].id = log'[2][2]
                                    THEN [payments[i] EXCEPT !.status = "denied"]
                                    ELSE payments[i]
             ELSE payments' = payments]_vars

(* the admin has just denied one of two payments of a subscribed user: the
   other payment is still pending *)
C34_Witness ==
    /\ Did(log, "admin_deny", ADMIN_ID)
    /\ Len(payments) = 2
    /\ \E i, k \in 1..2 :
          /\ Has(log, "set_payment_status", payments[i].id)
          /\ payments[i].status = "denied"
          /\ payments[k].status = "pending"
          /\ payments[k].user_id = payments[i].user_id
    /\ \E j \in 1..Len(users) : users[j].status = "active"

PaymentOrigin(p) ==
    [id |-> p.id, user_id |-> p.user_id, plan_key |-> p.plan_key,
     file_id |-> p.file_id, created_at |-> p.created_at]

(* C35: a stored payment keeps its id, user id, plan_key, proof reference and
   created_at in every step; its status changes only in a step that calls
   set_payment_status with its id, and such a step leaves every other payment
   as it was. *)
C35_PaymentOriginFixed ==
    [][/\ Len(payments') >= Len(payments)
       /\ \A i \in 1..Len(payments) :
             /\ PaymentOrigin(payments'[i]) = PaymentOrigin(payments[i])
             /\ payments'[i].status # payments[i].status
                => Has(log', "set_payment_status", payments[i].id)
             /\ (\E k \in 1..Len(payments) :
                    /\ payments[k].id # payments[i].id
                    /\ Has(log', "set_payment_status", payments[k].id))
                => payments'[i] = payments[i]]_vars

(* a payment created at an earlier time has just had its status written,
   next to a payment that is still pending *)
C35_Witness ==
    \E i, k \in 1..Len(payments) :
        /\ Has(log, "set_payment_status", payments[i].id)
        /\ payments[i].status # "pending"
        /\ payments[i].created_at[1] < now
        /\ payments[k].status = "pending"

UserStatuses == {"none", "active", "expired"}

NoTerm(r) == r.plan_key = "null" /\ r.start_at = NULL /\ r.end_at = NULL
HasTerm(r) == r.plan_key # "null" /\ r.start_at # NULL /\ r.end_at # NULL

(* C36: after every step each user's status is none, active or expired; a
   user with status none has plan_key, start_at and end_at all null and every
   other user has all three set; and a user whose status is not none does not
   have status none after the step. *)
C36_StatusDomain ==
    [][/\ \A j \in 1..Len(users') :
             /\ users'[j].status \in UserStatuses
             /\ IF users'[j].status = "none" THEN NoTerm(users'[j])
                ELSE HasTerm(users'[j])
       /\ \A j \in 1..Len(users) :
             users[j].status # "none"
             => users'[j].user_id = users[j].user_id /\ users'[j].status # "none"]_vars

(* an expired user has just sent /start: the record keeps status expired
   and its plan_key, start_at and end_at *)
C36_Witness ==
    \E j \in 1..Len(users) :
        /\ Did(log, "on_start", users[j].user_id)
        /\ users[j].status = "expired"
        /\ HasTerm(users[j])

(* C37: every user whose end_at is set has start_at and plan_key set too, and
   start_at is strictly earlier than end_at. *)
C37_TermWellFormed ==
    \A j \in 1..Len(users) :
        users[j].end_at # NULL
        => /\ users[j].start_at # NULL
           /\ users[j].plan_key # "null"
           /\ fromisoformat(users[j].start_at) < fromisoformat(users[j].end_at)

(* a renewal has just been granted on top of a running term: start_at is the
   time of the grant and end_at lies more than the plan's days after it *)
C37_Witness ==
    \E j \in 1..Len(users) :
        /\ Did(log, "admin_approve", ADMIN_ID)
        /\ Has(log, "set_subscription", users[j].user_id)
        /\ users[j].end_at # NULL
        /\ fromisoformat(users[j].start_at) = now
        /\ now > 0
        /\ fromisoformat(users[j].end_at) - now > PLANS[users[j].plan_key]

----------------------------------------------------------------------------
(* The sweep worker beside the dispatcher, started from a state with one
   subscription granted.  The event loop runs every task that is ready: the
   worker's sleep ends, its awaits return or raise, and a running handler
   returns. *)

InitGranted ==
    /\ variant \in Variants
    /\ now = 0
    /\ users = <<GrantFields(NewUser(2, "a"), "plan1", 0, PLANS["plan1"])>>
    /\ payments = <<[id |-> 1, user_id |-> 2, plan_key |-> "plan1", file_id |-> "f1",
                     created_at |-> isoformat(0), status |-> "approved"]>>
    /\ last_selected_plan = [u \in Customers |-> IF u = 2 THEN "plan1" ELSE "null"]
    /\ sweep_pc = "sleep"
    /\ sweep_now = 0
    /\ sweep_rows = << >>
    /\ grants = 1
    /\ upserting = << >>
    /\ counting = << >>
    /\ support = NoSupport
    /\ broadcast = NoBroadcast
    /\ log = << >>

NextWorker ==
    \/ \E d \in TickDays : Tick(d)
    \/ \E c \in Customers, p \in Profiles : on_start(c, p)
    \/ sweep_begin
    \/ sweep_user
    \/ sweep_end
    \/ handler_returns

SpecWorker ==
    /\ InitGranted
    /\ [][NextWorker]_vars
    /\ SF_vars(sweep_begin)
    /\ SF_vars(sweep_user)
    /\ SF_vars(sweep_end)
    /\ WF_vars(handler_returns)

(* C38: the sweep worker never stops: passes begin again and again, and a
   pass that ended in an exception is followed by a later pass. *)
C38_SweepNeverStops ==
    /\ []<>Did(log, "sweep_begin", 0)
    /\ \A u \in Customers : Has(log, "sweep_error", u) ~> Did(log, "sweep_begin", 0)

(* an iteration of a pass has just raised and the worker is back at its
   sleep *)
C38_Witness ==
    \E u \in Customers :
        /\ Did(log, "sweep_user", u)
        /\ Has(log, "sweep_error", u)
        /\ sweep_pc = "sleep"
        /\ sweep_rows = << >>

----------------------------------------------------------------------------
(* Ticketed support flow of main.py.  aiogram runs each update's handler as
   its own task, so two text messages of one user are handled by two
   on_user_text tasks whose awaits interleave: the read of the user's open
   ticket, the decision taken when that read returns, and the insert or the
   append are separate steps. *)

(* tickets_col.find_one({"user_id": uid, "status": "open"}): the position of
   the first open ticket of the user, 0 when there is none *)
RECURSIVE get_user_active_ticket(_, _, _)
get_user_active_ticket(tickets, uid, i) ==
    IF i > Len(tickets) THEN 0
    ELSE IF tickets[i].user_id = uid /\ tickets[i].status = "open" THEN i
    ELSE get_user_active_ticket(tickets, uid, i + 1)

create_support_ticket(tickets, uid) ==
    Append(tickets, [user_id |-> uid, status |-> "open", messages |-> 1])

add_message_to_ticket(tickets, tid) ==
    [tickets EXCEPT ![tid].messages = @ + 1]

close_support_ticket(tickets, tid) ==
    [tickets EXCEPT ![tid].status = "closed"]

RECURSIVE TotalMessages(_)
TotalMessages(tickets) ==
    IF tickets = << >> THEN 0
    ELSE Head(tickets).messages + TotalMessages(Tail(tickets))

InitSupport ==
    /\ variant = "main"
    /\ now = 0
    /\ users = << >>
    /\ payments = << >>
    /\ last_selected_plan = [u \in Customers |-> "null"]
    /\ sweep_pc = "sleep"
    /\ sweep_now = 0
    /\ sweep_rows = << >>
    /\ grants = 0
    /\ upserting = << >>
    /\ counting = << >>
    /\ support = NoSupport
    /\ broadcast = NoBroadcast
    /\ log = << >>

(* callback support_new: refused when the user has an open ticket, else the
   user is put in support mode *)
support_new_ticket(caller) ==
    /\ IF get_user_active_ticket(support.tickets, caller, 1) # 0
       THEN UNCHANGED support
       ELSE support' = [support EXCEPT !.mode = @ \cup {caller}]
    /\ UNCHANGED upserting
    /\ UNCHANGED counting
    /\ UNCHANGED broadcast
    /\ UNCHANGED <<variant, now, users, payments, last_selected_plan,
                   sweep_pc, sweep_now, sweep_rows, grants, log>>

(* callback support_close: the user's open ticket is closed and the user
   leaves support mode *)
support_close_ticket(caller) ==
    LET tid == get_user_active_ticket(support.tickets, caller, 1) IN
    /\ IF tid = 0
       THEN UNCHANGED support
       ELSE support' = [support EXCEPT !.tickets = close_support_ticket(@, tid),
                                       !.mode = @ \ {caller}]
    /\ UNCHANGED upserting
    /\ UNCHANGED counting
    /\ UNCHANGED broadcast
    /\ UNCHANGED <<variant, now, users, payments, last_selected_plan,
                   sweep_pc, sweep_now, sweep_rows, grants, log>>

(* on_user_text up to its await of get_user_active_ticket: the admin's text
   is dropped, a customer is upserted *)
text_begin(caller, profile) ==
    /\ Len(support.texts) < MaxTexts
    /\ TotalMessages(support.tickets) + Len(support.texts) < MaxMessages
    /\ IF is_admin(caller)
       THEN UNCHANGED <<users, support>>
       ELSE /\ users' = upsert_user(users, caller, profile)
            /\ support' = [support EXCEPT !.texts =
                              Append(@, [user_id |-> caller, pc |-> "read", ticket |-> 0])]
    /\ UNCHANGED upserting
    /\ UNCHANGED counting
    /\ UNCHANGED broadcast
    /\ UNCHANGED <<variant, now, payments, last_selected_plan,
                   sweep_pc, sweep_now, sweep_rows, grants, log>>

(* the read returns and the handler takes its branch: append to the ticket
   read, create one when there is none and the user is in support mode, or
   answer with the menu *)
text_read(k) ==
    LET uid == support.texts[k].user_id
        tid == get_user_active_ticket(support.tickets, uid, 1) IN
    /\ support.texts[k].pc = "read"
    /\ support' = [support EXCEPT !.texts =
          IF tid # 0 THEN [@ EXCEPT ![k] = [@ EXCEPT !.pc = "append", !.ticket = tid]]
          ELSE IF uid \in support.mode THEN [@ EXCEPT ![k] = [@ EXCEPT !.pc = "create"]]
          ELSE RemoveAt(@, k)]
    /\ UNCHANGED upserting
    /\ UNCHANGED counting
    /\ UNCHANGED broadcast
    /\ UNCHANGED <<variant, now, users, payments, last_selected_plan,
                   sweep_pc, sweep_now, sweep_rows, grants, log>>

(* add_message_to_ticket on the ticket that was read; the handler ends *)
text_append(k, ok) ==
    /\ support.texts[k].pc = "append"
    /\ support' = [support EXCEPT
          !.tickets = IF ok THEN add_message_to_ticket(@, support.texts[k].ticket) ELSE @,
          !.texts = RemoveAt(@, k)]
    /\ UNCHANGED upserting
    /\ UNCHANGED counting
    /\ UNCHANGED broadcast
    /\ UNCHANGED <<variant, now, users, payments, last_selected_plan,
                   sweep_pc, sweep_now, sweep_rows, grants, log>>

(* create_support_ticket: insert_one; a failed insert returns None and the
   handler ends with an error answer *)
text_create(k, ok) ==
    /\ support.texts[k].pc = "create"
    /\ Len(support.tickets) < MaxTickets
    /\ support' = [support EXCEPT
          !.tickets = IF ok THEN create_support_ticket(@, support.texts[k].user_id) ELSE @,
          !.texts = IF ok THEN [@ EXCEPT ![k] = [@ EXCEPT !.pc = "created",
                                                         !.ticket = Len(support.tickets) + 1]]
                    ELSE RemoveAt(@, k)]
    /\ UNCHANGED upserting
    /\ UNCHANGED counting
    /\ UNCHANGED broadcast
    /\ UNCHANGED <<variant, now, users, payments, last_selected_plan,
                   sweep_pc, sweep_now, sweep_rows, grants, log>>

(* the insert has returned a ticket id: the user leaves support mode and the
   handler ends *)
text_created(k) ==
    /\ support.texts[k].pc = "created"
    /\ support' = [support EXCEPT !.mode = @ \ {support.texts[k].user_id},
                                  !.texts = RemoveAt(@, k)]
    /\ UNCHANGED upserting
    /\ UNCHANGED counting
    /\ UNCHANGED broadcast
    /\ UNCHANGED <<variant, now, users, payments, last_selected_plan,
                   sweep_pc, sweep_now, sweep_rows, grants, log>>

NextSupport ==
    \/ \E c \in Customers, p \in Profiles : on_start(c, p)
    \/ \E c \in Customers : support_new_ticket(c)
    \/ \E c \in Customers : support_close_ticket(c)
    \/ \E c \in Ids, p \in Profiles : text_begin(c, p)
    \/ \E k \in 1..Len(support.texts) : text_read(k)
    \/ \E k \in 1..Len(support.texts), ok \in BOOLEAN : text_append(k, ok)
    \/ \E k \in 1..Len(support.texts), ok \in BOOLEAN : text_create(k, ok)
    \/ \E k \in 1..Len(support.texts) : text_created(k)
    \/ handler_returns

SpecSupport == InitSupport /\ [][NextSupport]_vars

OpenTickets(uid) ==
    {i \in 1..Len(support.tickets) :
        support.tickets[i].user_id = uid /\ support.tickets[i].status = "open"}

(* C39: in the support flow of main.py a user has at most one open ticket at
   any time, whatever the interleaving of the handlers of two text messages
   of that user. *)
C39_OneOpenTicket ==
    \A u \in Ids : Cardinality(OpenTickets(u)) <= 1

====
